---- MODULE Spec2Model ----
(***************************************************************************)
(* Model of go-psyq-signatures (src/main.go): compilation of wildcard byte *)
(* signatures, the brute-force scanner, the concurrent per-version scan    *)
(* tasks of do() with their mutex-guarded merge, the version estimator,    *)
(* the gap-aware region output and the symbol table.                       *)
(*                                                                         *)
(* Strings that the code inspects character by character (signature text,  *)
(* label names, module names, printed numbers) are sequences of one-       *)
(* character strings.  uint32 values are records [hi, lo] of two 16-bit    *)
(* halves, so that arithmetic modulo 2^32 is exact.                        *)
(***************************************************************************)
EXTENDS Integers, Sequences, FiniteSets, TLC

VARIABLES
    b,           \* do: the blob being scanned (data[0x800:])
    catalog,     \* what the signature repository serves for each version
    pcMain,      \* position of the goroutine running do
    pcTask,      \* position of each per-version task started by eg.Go
    matches,     \* each task's local `matches`
    mu,          \* do: the mutex, "" when free, else the version holding it
    allMatches,  \* do: map[string]match
    stdout,      \* the report lines printed so far
    exitStatus,  \* -1 while running, else the process exit status
    run,         \* which invocation of the program this is (1 or 2)
    prev,        \* what the first invocation produced
    call,        \* the function under test and its arguments
    ret          \* <<>> before the call returns, <<value>> after

vars == <<b, catalog, pcMain, pcTask, matches, mu, allMatches, stdout,
          exitStatus, run, prev, call, ret>>

pipelineVars == <<b, catalog, pcMain, pcTask, matches, mu, allMatches, stdout,
                  exitStatus, run, prev>>

(***************************************************************************)
(* Bounds                                                                  *)
(***************************************************************************)
MaxBlobLen == 4      \* longest blob given to checkSignature on its own
MaxSigLen == 3       \* longest compiled pattern given to checkSignature
MaxSigText == 4      \* longest signature text given to the compiler

(***************************************************************************)
(* Generic helpers                                                         *)
(***************************************************************************)
SeqsUpTo(S, n) == UNION {[1..k -> S] : k \in 0..n}

Range(s) == {s[i] : i \in 1..Len(s)}

IndexOf(s, x) == IF \E i \in 1..Len(s) : s[i] = x
                 THEN CHOOSE i \in 1..Len(s) : s[i] = x
                 ELSE 0

(***************************************************************************)
(* Characters                                                              *)
(***************************************************************************)
UpperChars == <<"A","B","C","D","E","F","G","H","I","J","K","L","M",
                "N","O","P","Q","R","S","T","U","V","W","X","Y","Z">>

LowerChars == <<"a","b","c","d","e","f","g","h","i","j","k","l","m",
                "n","o","p","q","r","s","t","u","v","w","x","y","z">>

DigitChars == <<"0","1","2","3","4","5","6","7","8","9">>

\* strings.ToLower, one character
ToLowerChar(c) == IF IndexOf(UpperChars, c) > 0
                  THEN LowerChars[IndexOf(UpperChars, c)]
                  ELSE c

\* strings.ToLower
ToLower(s) == [i \in 1..Len(s) |-> ToLowerChar(s[i])]

\* strings.HasPrefix
HasPrefix(s, prefix) ==
    /\ Len(s) >= Len(prefix)
    /\ SubSeq(s, 1, Len(prefix)) = prefix

\* strings.TrimSuffix
TrimSuffix(s, suffix) ==
    IF Len(s) >= Len(suffix) /\ SubSeq(s, Len(s) - Len(suffix) + 1, Len(s)) = suffix
    THEN SubSeq(s, 1, Len(s) - Len(suffix))
    ELSE s

\* strings.Split(s, " "): one token per separator plus one, empty tokens kept
RECURSIVE SplitFrom(_, _, _)
SplitFrom(s, i, cur) ==
    IF i > Len(s) THEN <<cur>>
    ELSE IF s[i] = " " THEN <<cur>> \o SplitFrom(s, i + 1, <<>>)
    ELSE SplitFrom(s, i + 1, Append(cur, s[i]))

Split(s) == SplitFrom(s, 1, <<>>)

(***************************************************************************)
(* strconv.ParseUint(ch, 16, 8)                                            *)
(***************************************************************************)
\* the digit value ParseUint gives a character, 99 for a character that is
\* neither a digit nor a letter
DigitValue(c) ==
    IF IndexOf(DigitChars, c) > 0 THEN IndexOf(DigitChars, c) - 1
    ELSE IF IndexOf(LowerChars, ToLowerChar(c)) > 0
         THEN IndexOf(LowerChars, ToLowerChar(c)) - 1 + 10
    ELSE 99

ParseBase == 16
ParseMaxVal == 255

\* the loop of ParseUint: a character that is no digit of the base is a
\* syntax error, a value above the maximum of the bit size a range error
RECURSIVE ParseLoop(_, _, _)
ParseLoop(s, i, n) ==
    IF i > Len(s) THEN [err |-> "", val |-> n]
    ELSE IF DigitValue(s[i]) >= ParseBase THEN [err |-> "syntax", val |-> 0]
    ELSE IF n * ParseBase + DigitValue(s[i]) > ParseMaxVal
         THEN [err |-> "range", val |-> ParseMaxVal]
    ELSE ParseLoop(s, i + 1, n * ParseBase + DigitValue(s[i]))

\* the same loop without the check against the maximum of the bit size
RECURSIVE ParseLoopNoRange(_, _, _)
ParseLoopNoRange(s, i, n) ==
    IF i > Len(s) THEN [err |-> "", val |-> n % (ParseMaxVal + 1)]
    ELSE IF DigitValue(s[i]) >= ParseBase THEN [err |-> "syntax", val |-> 0]
    ELSE ParseLoopNoRange(s, i + 1, n * ParseBase + DigitValue(s[i]))

ParseUintNoRange(s) ==
    IF s = <<>> THEN [err |-> "syntax", val |-> 0]
    ELSE ParseLoopNoRange(s, 1, 0)

ParseUint(s) ==
    IF s = <<>> THEN [err |-> "syntax", val |-> 0]
    ELSE ParseLoop(s, 1, 0)

(***************************************************************************)
(* fetchPsyqSignatures, lines 85-105: compiling one signature text         *)
(***************************************************************************)
Wild == <<"?", "?">>

\* the loop over the tokens; the first token ParseUint rejects ends it
RECURSIVE CompileLoop(_, _, _, _)
CompileLoop(s, i, signature, wildcard) ==
    IF i > Len(s) THEN [err |-> "", signature |-> signature, wildcard |-> wildcard]
    ELSE IF s[i] = Wild
         THEN CompileLoop(s, i + 1, Append(signature, 0), Append(wildcard, TRUE))
    ELSE IF s[i] = <<>>
         THEN CompileLoop(s, i + 1, signature, wildcard)
    ELSE IF ParseUint(s[i]).err # ""
         THEN [err |-> ParseUint(s[i]).err, signature |-> <<>>, wildcard |-> <<>>]
    ELSE CompileLoop(s, i + 1, Append(signature, ParseUint(s[i]).val),
                     Append(wildcard, FALSE))

compileSignature(text) == CompileLoop(Split(ToLower(text)), 1, <<>>, <<>>)

(***************************************************************************)
(* checkSignature                                                          *)
(***************************************************************************)
EmptySignature == [Name |-> <<>>, Labels |-> <<>>, signature |-> <<>>, wildcard |-> <<>>]

\* the inner loop over j: TRUE when no non-wildcard byte differs
RECURSIVE matchLoop(_, _, _)
matchLoop(start, signature, j) ==
    IF ~(j < Len(signature.signature)) THEN TRUE
    ELSE IF signature.wildcard[j + 1] THEN matchLoop(start, signature, j + 1)
    ELSE IF start[j + 1] # signature.signature[j + 1] THEN FALSE
    ELSE matchLoop(start, signature, j + 1)

\* the outer loop: for i := from; i < len(b)-sigLen; i++
RECURSIVE scanLoop(_, _, _)
scanLoop(blob, signature, i) ==
    IF ~(i < Len(blob) - Len(signature.signature))
    THEN [sig |-> EmptySignature, offset |-> -1]
    ELSE IF matchLoop(SubSeq(blob, i + 1, Len(blob)), signature, 0)
         THEN [sig |-> signature, offset |-> i]
    ELSE scanLoop(blob, signature, i + 1)

checkSignatureSkipFirst(blob, signature) ==
    IF Len(signature.signature) = 0
    THEN [sig |-> EmptySignature, offset |-> -1]
    ELSE scanLoop(blob, signature, 1)

checkSignature(blob, signature) ==
    IF Len(signature.signature) = 0
    THEN [sig |-> EmptySignature, offset |-> -1]
    ELSE scanLoop(blob, signature, 0)

(***************************************************************************)
(* uint32 arithmetic and the printf conversions                            *)
(***************************************************************************)
Half == 65536

\* uint32(n) for an int n >= 0
U32(n) == [hi |-> (n \div Half) % Half, lo |-> n % Half]

\* a + b in uint32: the carry of the low halves goes into the high halves,
\* the carry of the high halves is lost
Add32(x, y) ==
    [hi |-> (x.hi + y.hi + ((x.lo + y.lo) \div Half)) % Half,
     lo |-> (x.lo + y.lo) % Half]

\* x < y in uint32
Less32(x, y) == x.hi < y.hi \/ (x.hi = y.hi /\ x.lo < y.lo)

UpperHexDigits == <<"0","1","2","3","4","5","6","7","8","9","A","B","C","D","E","F">>

\* %X of an int n >= 0: upper-case digits, no leading zeros
RECURSIVE FormatX(_)
FormatX(n) ==
    IF n < 16 THEN <<UpperHexDigits[n + 1]>>
    ELSE Append(FormatX(n \div 16), UpperHexDigits[(n % 16) + 1])

Format04X(h) ==
    <<UpperHexDigits[(h \div 4096) + 1], UpperHexDigits[((h \div 256) % 16) + 1],
      UpperHexDigits[((h \div 16) % 16) + 1], UpperHexDigits[(h % 16) + 1]>>

\* %08X of a uint32
Format08X(x) == Format04X(x.hi) \o Format04X(x.lo)

\* %.2f of the float64 num/den, 0 <= num <= den: the hundredths nearest to
\* the quotient, an exact half going to the even neighbour
Format2f(num, den) ==
    LET twice == 200 * num
        down == twice \div (2 * den)
        rest == twice % (2 * den)
        h == IF rest > den \/ (rest = den /\ down % 2 = 1) THEN down + 1 ELSE down
    IN <<DigitChars[(h \div 100) + 1], ".", DigitChars[((h \div 10) % 10) + 1],
         DigitChars[(h % 10) + 1]>>

(***************************************************************************)
(* getMatches, lines 145-169: the matches of one version's signatures      *)
(***************************************************************************)
LocPrefix == <<"l", "o", "c", "_">>
TextPrefix == <<"t", "e", "x", "t", "_">>

\* the loop over sig.Labels, filling m.symbols; a later label at the same
\* address replaces an earlier one
RECURSIVE symbolsLoop(_, _, _, _, _)
symbolsLoop(labels, i, baseAddr, offset, symbols) ==
    IF i > Len(labels) THEN symbols
    ELSE IF HasPrefix(labels[i].Name, LocPrefix) \/ HasPrefix(labels[i].Name, TextPrefix)
         THEN symbolsLoop(labels, i + 1, baseAddr, offset, symbols)
    ELSE LET addr == Add32(Add32(baseAddr, U32(offset)), labels[i].Offset)
         IN symbolsLoop(labels, i + 1, baseAddr, offset,
                [a \in DOMAIN symbols \cup {addr} |->
                    IF a = addr THEN labels[i].Name ELSE symbols[a]])

newMatch(sig, offset, baseAddr, sdkver) ==
    [start |-> offset,
     end |-> offset + Len(sig.signature),
     name |-> sig.Name,
     version |-> sdkver,
     symbols |-> symbolsLoop(sig.Labels, 1, baseAddr, offset, <<>>)]

\* the loop over the signatures of one version
RECURSIVE matchesLoop(_, _, _, _, _)
matchesLoop(blob, baseAddr, sdkver, signatures, i) ==
    IF i > Len(signatures) THEN <<>>
    ELSE LET found == checkSignature(blob, signatures[i])
         IN IF found.offset < 0
            THEN matchesLoop(blob, baseAddr, sdkver, signatures, i + 1)
            ELSE <<newMatch(found.sig, found.offset, baseAddr, sdkver)>>
                 \o matchesLoop(blob, baseAddr, sdkver, signatures, i + 1)

(***************************************************************************)
(* do, lines 242-253: merging one task's matches into allMatches           *)
(***************************************************************************)
mergeOneFirstWins(all, match) ==
    IF match.name \notin DOMAIN all
    THEN [n \in DOMAIN all \cup {match.name} |->
            IF n = match.name THEN match ELSE all[n]]
    ELSE all

mergeOne(all, match) ==
    IF match.name \notin DOMAIN all
    THEN [n \in DOMAIN all \cup {match.name} |->
            IF n = match.name THEN match ELSE all[n]]
    ELSE IF Cardinality(DOMAIN all[match.name].symbols) < Cardinality(DOMAIN match.symbols)
         THEN [all EXCEPT ![match.name] = match]
    ELSE all

RECURSIVE mergeLoop(_, _, _)
mergeLoop(all, ms, i) ==
    IF i > Len(ms) THEN all
    ELSE mergeLoop(mergeOne(all, ms[i]), ms, i + 1)

(***************************************************************************)
(* Orders a Go map iteration followed by sort.Slice can produce            *)
(***************************************************************************)
RECURSIVE Perms(_)
Perms(S) ==
    IF S = {} THEN {<<>>}
    ELSE UNION {{<<x>> \o p : p \in Perms(S \ {x})} : x \in S}

(***************************************************************************)
(* estimatePsyqVesion                                                      *)
(***************************************************************************)
EstimateKeep == 3

\* out[i].match < out[j].match on the float64 quotients count/total
LessRatio(x, y) == x.num * y.den < y.num * x.den

estimateEntries(all) ==
    LET versions == {all[n].version : n \in DOMAIN all}
        count(v) == Cardinality({n \in DOMAIN all : all[n].version = v})
        total == Cardinality(DOMAIN all)
    IN {[version |-> v, match |-> [num |-> count(v), den |-> total]] : v \in versions}

truncateNone(out) == out

truncate(out) == IF Len(out) >= EstimateKeep THEN SubSeq(out, 1, EstimateKeep) ELSE out

\* every result the function can return: the map is walked in any order and
\* sort.Slice may leave equal ratios in any order
estimatePsyqVesion(all) ==
    {truncate(out) : out \in
        {p \in Perms(estimateEntries(all)) :
            \A i, j \in 1..Len(p) : i < j => ~LessRatio(p[j].match, p[i].match)}}

(***************************************************************************)
(* getMatchesSorted, getSymbolsSorted                                      *)
(***************************************************************************)
getMatchesSorted(all) ==
    {p \in Perms({all[n] : n \in DOMAIN all}) :
        \A i, j \in 1..Len(p) : i < j => ~(p[j].start < p[i].start)}

\* one entry per (match, address), so equal entries of two matches both stay
getSymbolsSorted(all) ==
    LET entries == {<<n, a>> : n \in DOMAIN all, a \in UNION {DOMAIN all[m].symbols : m \in DOMAIN all}}
        present == {e \in entries : e[2] \in DOMAIN all[e[1]].symbols}
    IN {[i \in 1..Len(p) |-> [Name |-> all[p[i][1]].symbols[p[i][2]], Offset |-> p[i][2]]] :
          p \in {q \in Perms(present) :
                   \A i, j \in 1..Len(q) : i < j => ~Less32(q[j][2], q[i][2])}}

(***************************************************************************)
(* do, lines 265-277: the report                                           *)
(***************************************************************************)
ObjSuffix == <<".", "O", "B", "J">>

versionLines(est) ==
    [i \in 1..Len(est) |->
        [kind |-> "version", version |-> est[i].version,
         ratio |-> Format2f(est[i].match.num, est[i].match.den)]]

namedLine(m) ==
    [kind |-> "segment", offset |-> FormatX(m.start),
     name |-> ToLower(TrimSuffix(m.name, ObjSuffix))]

gapLine(m) == [kind |-> "gap", offset |-> FormatX(m.end)]

\* the same loop with a gap marker also between two matches that touch
RECURSIVE regionLoopGapOnTouch(_, _)
regionLoopGapOnTouch(sorted, i) ==
    IF ~(i < Len(sorted)) THEN <<>>
    ELSE (IF sorted[i + 1].start >= sorted[i].end THEN <<gapLine(sorted[i])>> ELSE <<>>)
         \o <<namedLine(sorted[i + 1])>>
         \o regionLoopGapOnTouch(sorted, i + 1)

\* the loop for i := 1; i < len(matches); i++ (sorted is 1-based here)
RECURSIVE regionLoop(_, _)
regionLoop(sorted, i) ==
    IF ~(i < Len(sorted)) THEN <<>>
    ELSE (IF sorted[i + 1].start > sorted[i].end THEN <<gapLine(sorted[i])>> ELSE <<>>)
         \o <<namedLine(sorted[i + 1])>>
         \o regionLoop(sorted, i + 1)

regionLines(sorted) == <<namedLine(sorted[1])>> \o regionLoop(sorted, 1)

symbolLines(symbols, baseAddr) ==
    [i \in 1..Len(symbols) |->
        [kind |-> "symbol", name |-> symbols[i].Name,
         address |-> Format08X(Add32(baseAddr, symbols[i].Offset))]]

(***************************************************************************)
(* fetchPsyqSignatures: every result it can return for one version         *)
(***************************************************************************)
\* signatures = append(signatures, items...) for the files in the order in
\* which their downloads complete
RECURSIVE appendItems(_, _, _)
appendItems(files, order, i) ==
    IF i > Len(order) THEN <<>>
    ELSE files[order[i]].items \o appendItems(files, order, i + 1)

\* the loop over signatures; the first text that does not compile ends it
RECURSIVE compileAll(_, _)
compileAll(signatures, i) ==
    IF i > Len(signatures) THEN [err |-> "", signatures |-> <<>>]
    ELSE LET c == compileSignature(signatures[i].Signature)
             rest == compileAll(signatures, i + 1)
         IN IF c.err # "" THEN [err |-> c.err, signatures |-> <<>>]
            ELSE IF rest.err # "" THEN rest
            ELSE [err |-> "",
                  signatures |-> <<[Name |-> signatures[i].Name,
                                    Labels |-> signatures[i].Labels,
                                    signature |-> c.signature,
                                    wildcard |-> c.wildcard]>> \o rest.signatures]

fetchPsyqSignatures(served) ==
    IF served.listing # "ok" THEN {[err |-> "fetch", signatures |-> <<>>]}
    ELSE IF \E k \in 1..Len(served.files) : served.files[k].status # "ok"
         THEN {[err |-> "fetch", signatures |-> <<>>]}
    ELSE {compileAll(appendItems(served.files, order, 1), 1) :
            order \in Perms(1..Len(served.files))}

(***************************************************************************)
(* getMatches: log.Fatal on a failed fetch, else the matches               *)
(***************************************************************************)
getMatchesSkipFailed(blob, baseAddr, sdkver, served) ==
    {IF r.err # "" THEN [fatal |-> FALSE, matches |-> <<>>]
     ELSE [fatal |-> FALSE,
           matches |-> matchesLoop(blob, baseAddr, sdkver, r.signatures, 1)] :
        r \in fetchPsyqSignatures(served)}

getMatches(blob, baseAddr, sdkver, served) ==
    {IF r.err # "" THEN [fatal |-> TRUE, matches |-> <<>>]
     ELSE [fatal |-> FALSE,
           matches |-> matchesLoop(blob, baseAddr, sdkver, r.signatures, 1)] :
        r \in fetchPsyqSignatures(served)}

(***************************************************************************)
(* The inputs of a run                                                     *)
(***************************************************************************)
NumVersions == 3     \* how many of the 16 version tags are scanned

versions == <<"260", "300", "330", "340", "350", "3610", "3611", "370",
              "400", "410", "420", "430", "440", "450", "460", "470">>

Scanned == {versions[i] : i \in 1..NumVersions}

\* main: do(data[0x800:], 0x80010000)
baseAddress == [hi |-> 32769, lo |-> 0]

ModuleName(i) == <<UpperChars[i], ".", "O", "B", "J">>

XObj == ModuleName(24)
YObj == ModuleName(25)

RECURSIVE Spaced(_)
Spaced(tokens) ==
    IF Len(tokens) = 0 THEN <<>>
    ELSE IF Len(tokens) = 1 THEN tokens[1]
    ELSE tokens[1] \o <<" ">> \o Spaced(Tail(tokens))

Label(name, offset) == [Name |-> name, Offset |-> U32(offset)]

Foo == <<"F", "O", "O">>
Bar == <<"B", "A", "R">>
Main == <<"M", "A", "I", "N">>
Entry == <<"E", "N", "T", "R", "Y">>
Loc1 == <<"l", "o", "c", "_", "1">>
Text3 == <<"t", "e", "x", "t", "_", "3">>

File(items) == [status |-> "ok", items |-> items]

\* the listing of the version's folder fails
ServedNothing == [listing |-> "fail", files |-> <<>>]

\* the download of the one file of the folder fails
ServedBroken == [listing |-> "ok", files |-> <<[status |-> "fail", items |-> <<>>]>>]

\* a signature text with a token that is no byte
ServedMalformed ==
    [listing |-> "ok",
     files |-> <<File(<<[Name |-> XObj,
                         Signature |-> Spaced(<<<<"0","0">>, <<"0","g">>>>),
                         Labels |-> <<>>]>>)>>]

\* the way in which the i-th version can be unavailable
Unavailable(i) ==
    IF i % 3 = 1 THEN ServedNothing
    ELSE IF i % 3 = 2 THEN ServedBroken
    ELSE ServedMalformed

\* X.OBJ with one exported label
ServedPlain ==
    [listing |-> "ok",
     files |-> <<File(<<[Name |-> XObj,
                         Signature |-> Spaced(<<<<"0","0">>, <<"0","0">>, Wild, <<"0","0">>>>),
                         Labels |-> <<Label(Foo, 1), Label(Loc1, 2)>>]>>)>>]

\* two files: X.OBJ with two exported labels and Y.OBJ in the first, Y.OBJ
\* again, with another pattern and label, in the second
ServedRich ==
    [listing |-> "ok",
     files |-> <<File(<<[Name |-> XObj,
                         Signature |-> Spaced(<<<<"0","0">>, <<"0","0">>, Wild, <<"0","0">>>>),
                         Labels |-> <<Label(Text3, 0), Label(Foo, 1), Label(Bar, 2)>>],
                        [Name |-> YObj,
                         Signature |-> Spaced(<<<<"0","1">>, <<"0","2">>>>),
                         Labels |-> <<Label(Main, 0)>>]>>),
                 File(<<[Name |-> YObj,
                         Signature |-> Spaced(<<<<"0","0">>, <<"0","1">>, Wild>>),
                         Labels |-> <<Label(Entry, 1)>>]>>)>>]

\* what the repository can serve for the i-th version
Served(i) == <<Unavailable(i), ServedPlain, ServedRich>>

\* a blob in which X.OBJ and Y.OBJ occur, and one in which nothing occurs
Blobs == {<<0, 0, 0, 0, 1, 2, 0>>, <<1, 0, 1>>}

(***************************************************************************)
(* Spec: do, with its per-version tasks                                    *)
(***************************************************************************)
Init ==
    /\ b \in Blobs
    /\ \E choice \in [1..NumVersions -> 1..3] :
         catalog = [v \in Scanned |->
                      LET i == CHOOSE k \in 1..NumVersions : versions[k] = v
                      IN Served(i)[choice[i]]]
    /\ pcMain = "go"
    /\ pcTask = [v \in Scanned |-> "unborn"]
    /\ matches = [v \in Scanned |-> <<>>]
    /\ mu = ""
    /\ allMatches = <<>>
    /\ stdout = <<>>
    /\ exitStatus = -1
    /\ run = 1
    /\ prev = <<>>
    /\ call = [fn |-> "do"]
    /\ ret = <<>>

Running == exitStatus = -1

\* for _, ver := range versions { eg.Go(...) }: one iteration; each task has
\* its own ver (the per-iteration loop variable of Go 1.22 and later)
MainGo ==
    /\ Running
    /\ pcMain = "go"
    /\ \E i \in 1..NumVersions :
         /\ pcTask[versions[i]] = "unborn"
         /\ \A k \in 1..(i - 1) : pcTask[versions[k]] # "unborn"
         /\ pcTask' = [pcTask EXCEPT ![versions[i]] = "start"]
         /\ pcMain' = IF i = NumVersions THEN "wait" ELSE "go"
    /\ UNCHANGED <<b, catalog, matches, mu, allMatches, stdout, exitStatus, run, prev,
                   call, ret>>

\* matches := getMatches(b, baseAddr, ver); if len(matches) == 0 { return nil }
TaskGetMatches(v) ==
    /\ Running
    /\ pcTask[v] = "start"
    /\ \E r \in getMatches(b, baseAddress, v, catalog[v]) :
         IF r.fatal
         THEN /\ exitStatus' = 1
              /\ pcMain' = "exited"
              /\ UNCHANGED <<pcTask, matches>>
         ELSE /\ matches' = [matches EXCEPT ![v] = r.matches]
              /\ pcTask' = [pcTask EXCEPT ![v] = IF Len(r.matches) = 0 THEN "done" ELSE "lock"]
              /\ UNCHANGED <<exitStatus, pcMain>>
    /\ UNCHANGED <<b, catalog, mu, allMatches, stdout, run, prev, call, ret>>

\* mu.Lock()
TaskLock(v) ==
    /\ Running
    /\ pcTask[v] = "lock"
    /\ mu = ""
    /\ mu' = v
    /\ pcTask' = [pcTask EXCEPT ![v] = "merge"]
    /\ UNCHANGED <<b, catalog, pcMain, matches, allMatches, stdout, exitStatus, run, prev,
                   call, ret>>

\* the merge loop, return nil and the deferred mu.Unlock()
TaskMerge(v) ==
    /\ Running
    /\ pcTask[v] = "merge"
    /\ mu = v
    /\ allMatches' = mergeLoop(allMatches, matches[v], 1)
    /\ mu' = ""
    /\ pcTask' = [pcTask EXCEPT ![v] = "done"]
    /\ UNCHANGED <<b, catalog, pcMain, matches, stdout, exitStatus, run, prev, call, ret>>

\* _ = eg.Wait() returns once every task has returned; then the rest of do
MainReport ==
    /\ Running
    /\ pcMain = "wait"
    /\ \A v \in Scanned : pcTask[v] = "done"
    /\ IF DOMAIN allMatches = {}
       THEN /\ exitStatus' = 1
            /\ stdout' = stdout
       ELSE /\ exitStatus' = 0
            /\ \E sorted \in getMatchesSorted(allMatches),
                  symbols \in getSymbolsSorted(allMatches),
                  est \in estimatePsyqVesion(allMatches) :
                 stdout' = stdout \o versionLines(est) \o regionLines(sorted)
                             \o symbolLines(symbols, baseAddress)
    /\ pcMain' = "exited"
    /\ UNCHANGED <<b, catalog, pcTask, matches, mu, allMatches, run, prev, call, ret>>

\* main, a second time, on the same file and the same repository
Rerun ==
    /\ ~Running
    /\ run = 1
    /\ prev' = [allMatches |-> allMatches, stdout |-> stdout, exitStatus |-> exitStatus]
    /\ run' = 2
    /\ pcMain' = "go"
    /\ pcTask' = [v \in Scanned |-> "unborn"]
    /\ matches' = [v \in Scanned |-> <<>>]
    /\ mu' = ""
    /\ allMatches' = <<>>
    /\ stdout' = <<>>
    /\ exitStatus' = -1
    /\ UNCHANGED <<b, catalog, call, ret>>

Next ==
    \/ MainGo
    \/ \E v \in Scanned : TaskGetMatches(v)
    \/ \E v \in Scanned : TaskLock(v)
    \/ \E v \in Scanned : TaskMerge(v)
    \/ MainReport
    \/ Rerun

Spec == Init /\ [][Next]_vars

TypeOK ==
    /\ pcMain \in {"go", "wait", "exited"}
    /\ \A v \in Scanned : pcTask[v] \in {"unborn", "start", "lock", "merge", "done"}
    /\ mu \in Scanned \cup {""}
    /\ exitStatus \in {-1, 0, 1}
    /\ run \in {1, 2}

AllTasksFinished == run >= 1 /\ \A v \in Scanned : pcTask[v] = "done"

\* every raw match a task produced
RawMatches == UNION {Range(matches[v]) : v \in Scanned}

SymbolCount(m) == Cardinality(DOMAIN m.symbols)

\* C1: once all tasks have finished, under every interleaving, the entry
\* stored for a module name has the largest symbol count among the raw
\* matches with that name produced by any version.
MergeLaw ==
    AllTasksFinished =>
      \A m \in RawMatches :
         /\ m.name \in DOMAIN allMatches
         /\ allMatches[m.name].name = m.name
         /\ SymbolCount(allMatches[m.name]) >= SymbolCount(m)
         /\ \E r \in RawMatches :
              r.name = m.name /\ SymbolCount(r) = SymbolCount(allMatches[m.name])

\* X.OBJ matched with 1 symbol by the first version and with 2 symbols by
\* the second, resolved to the 2-symbol variant
MergeLawWitness ==
    /\ AllTasksFinished
    /\ \E m \in Range(matches[versions[1]]) : m.name = XObj /\ SymbolCount(m) = 1
    /\ \E m \in Range(matches[versions[2]]) : m.name = XObj /\ SymbolCount(m) = 2
    /\ allMatches[XObj].version = versions[2]
    /\ SymbolCount(allMatches[XObj]) = 2

\* C2: a second run on the same blob and the same signature repository ends
\* with the same resolved matches (version tags included), the same version
\* estimates and the same report text as the first, whatever the
\* interleavings of the two runs.
Idempotence ==
    (run = 2 /\ pcMain = "exited") =>
      /\ exitStatus = prev.exitStatus
      /\ stdout = prev.stdout
      /\ exitStatus = 0 => allMatches = prev.allMatches

\* fetching the signatures of version v fails: the listing or a download
\* fails, or a downloaded signature text does not compile
FetchFails(v) ==
    \/ catalog[v].listing = "fail"
    \/ \E k \in 1..Len(catalog[v].files) :
          \/ catalog[v].files[k].status = "fail"
          \/ \E r \in Range(catalog[v].files[k].items) :
                compileSignature(r.Signature).err # ""

\* nothing has been printed, and the run has not ended or has ended with
\* status 1
FailedRun ==
    /\ stdout = <<>>
    /\ exitStatus # 0
    /\ pcMain = "exited" => exitStatus = 1

\* C6: when the fetch of one version fails, under every interleaving no
\* report line is ever printed and the run never ends with status 0; when
\* it has ended its status is 1.
FailFast == FailedRun \/ ~(run >= 1 /\ \E v \in Scanned : FetchFails(v))

\* a run killed by the failed fetch of one version after another version's
\* matches had already been merged
FailFastWitness ==
    /\ run >= 1
    /\ \E v \in Scanned : FetchFails(v) /\ pcTask[v] = "start"
    /\ \E v \in Scanned : ~FetchFails(v) /\ pcTask[v] = "done" /\ Len(matches[v]) > 0
    /\ DOMAIN allMatches # {}
    /\ pcMain = "exited"
    /\ exitStatus = 1
    /\ stdout = <<>>

\* the records of the repository from which version v produced the match m
SignaturesOf(m) ==
    {r \in UNION {Range(catalog[m.version].files[k].items) :
                    k \in 1..Len(catalog[m.version].files)} :
        /\ r.Name = m.name
        /\ compileSignature(r.Signature).err = ""
        /\ Len(compileSignature(r.Signature).signature) = m.end - m.start}

Exported(name) ==
    /\ ~(Len(name) >= 4 /\ SubSeq(name, 1, 4) = <<"l", "o", "c", "_">>)
    /\ ~(Len(name) >= 5 /\ SubSeq(name, 1, 5) = <<"t", "e", "x", "t", "_">>)

\* C5: in a printed report, every exported label of the signature of every
\* resolved match has a symbol line whose address is
\* (baseAddress + match.start + label.offset) mod 2^32 in 8 hex digits.
SymbolAddresses ==
    (run >= 1 /\ pcMain = "exited" /\ exitStatus = 0) =>
      \A n \in DOMAIN allMatches :
         \A r \in SignaturesOf(allMatches[n]) :
            \A k \in 1..Len(r.Labels) :
               Exported(r.Labels[k].Name) =>
                  \E p \in 1..Len(stdout) :
                     /\ stdout[p].kind = "symbol"
                     /\ stdout[p].name = r.Labels[k].Name
                     /\ stdout[p].address =
                          Format08X(Add32(Add32(baseAddress, U32(allMatches[n].start)),
                                          r.Labels[k].Offset))

(***************************************************************************)
(* The pipeline at rest, for the specifications of single functions        *)
(***************************************************************************)
PipelineIdle ==
    /\ b = <<>>
    /\ catalog = <<>>
    /\ pcMain = "idle"
    /\ pcTask = <<>>
    /\ matches = <<>>
    /\ mu = ""
    /\ allMatches = <<>>
    /\ stdout = <<>>
    /\ exitStatus = -1
    /\ run = 0
    /\ prev = <<>>

(***************************************************************************)
(* SpecScan: checkSignature on every small blob and compiled pattern       *)
(***************************************************************************)
ScanBytes == {0, 1}

\* one position of a compiled pattern: a wildcard carries the byte 0
PatternCells == {[w |-> TRUE, v |-> 0]} \cup {[w |-> FALSE, v |-> x] : x \in ScanBytes}

SignatureOf(cells) ==
    [Name |-> <<"S">>, Labels |-> <<>>,
     signature |-> [i \in 1..Len(cells) |-> cells[i].v],
     wildcard |-> [i \in 1..Len(cells) |-> cells[i].w]]

InitScan ==
    /\ PipelineIdle
    /\ \E blob \in SeqsUpTo(ScanBytes, MaxBlobLen), cells \in SeqsUpTo(PatternCells, MaxSigLen) :
         call = [fn |-> "checkSignature", b |-> blob, signature |-> SignatureOf(cells)]
    /\ ret = <<>>

CallCheckSignature ==
    /\ call.fn = "checkSignature"
    /\ ret = <<>>
    /\ ret' = <<checkSignature(call.b, call.signature)>>
    /\ UNCHANGED <<call, pipelineVars>>

NextScan == CallCheckSignature

SpecScan == InitScan /\ [][NextScan]_vars

\* the pattern's non-wildcard bytes agree with the blob at offset i
OccursAt(blob, signature, i) ==
    /\ i >= 0
    /\ i + Len(signature.signature) <= Len(blob)
    /\ \A j \in 1..Len(signature.signature) :
         signature.wildcard[j] \/ blob[i + j] = signature.signature[j]

\* C3: whenever a non-empty pattern occurs in the blob at some offset i with
\* i + len(pattern) <= len(blob), checkSignature returns a match.
ScanFindsEveryOffset ==
    (ret # <<>> /\ Len(call.signature.signature) > 0
       /\ \E i \in 0..Len(call.b) : OccursAt(call.b, call.signature, i))
    => ret[1].offset >= 0

\* C4: an offset k >= 0 returned for a pattern no longer than the blob is an
\* occurrence of the pattern, and no smaller offset is one.
LeftmostMatch ==
    (ret # <<>> /\ Len(call.signature.signature) <= Len(call.b) /\ ret[1].offset >= 0)
    => /\ OccursAt(call.b, call.signature, ret[1].offset)
       /\ \A i \in 0..(ret[1].offset - 1) : ~OccursAt(call.b, call.signature, i)

\* a match found past an earlier position that differs, through a wildcard
LeftmostMatchWitness ==
    /\ ret # <<>>
    /\ ret[1].offset = 1
    /\ \E j \in 1..Len(call.signature.wildcard) : call.signature.wildcard[j]
    /\ \E j \in 1..Len(call.signature.wildcard) : ~call.signature.wildcard[j]
    /\ Len(call.signature.signature) = 2

(***************************************************************************)
(* SpecCompile: compiling every short signature text                       *)
(***************************************************************************)
SigAlphabet == {"0", "1", "f", "A", "g", "?", " ", "\t"}

InitCompile ==
    /\ PipelineIdle
    /\ \E text \in SeqsUpTo(SigAlphabet, MaxSigText) :
         call = [fn |-> "compile", Signature |-> text]
    /\ ret = <<>>

CallCompile ==
    /\ call.fn = "compile"
    /\ ret = <<>>
    /\ ret' = <<compileSignature(call.Signature)>>
    /\ UNCHANGED <<call, pipelineVars>>

NextCompile == CallCompile

SpecCompile == InitCompile /\ [][NextCompile]_vars

\* the characters that are hexadecimal digits, with their values
HexTable == <<"0","1","2","3","4","5","6","7","8","9","a","b","c","d","e","f">>

IsHexChar(c) == IndexOf(HexTable, ToLowerChar(c)) > 0

HexCharValue(c) == IndexOf(HexTable, ToLowerChar(c)) - 1

IsWildToken(t) == t = <<"?", "?">>

IsTwoHexToken(t) == Len(t) = 2 /\ IsHexChar(t[1]) /\ IsHexChar(t[2])

\* a non-empty run of hexadecimal digits whose value fits in one byte: every
\* digit before the last two is a zero
IsByteHexToken(t) ==
    /\ Len(t) >= 1
    /\ \A i \in 1..Len(t) : IsHexChar(t[i])
    /\ \A i \in 1..(Len(t) - 2) : t[i] = "0"

ByteHexValue(t) ==
    IF Len(t) = 1 THEN HexCharValue(t[1])
    ELSE 16 * HexCharValue(t[Len(t) - 1]) + HexCharValue(t[Len(t)])

NonEmptyToken(t) == t # <<>>

\* on success the two arrays have one entry per non-empty token, in order
CompiledInTokenOrder(text, compiled) ==
    LET toks == SelectSeq(Split(text), NonEmptyToken)
    IN /\ Len(compiled.signature) = Len(toks)
       /\ Len(compiled.wildcard) = Len(toks)
       /\ \A k \in 1..Len(toks) :
            /\ compiled.wildcard[k] <=> IsWildToken(toks[k])
            /\ compiled.signature[k] =
                 IF IsWildToken(toks[k]) THEN 0 ELSE ByteHexValue(toks[k])

\* C9 as stated: compilation succeeds exactly when every token is the
\* wildcard marker, a two-hex-digit byte value or empty, and on success the
\* pattern and the wildcard mask have one entry per non-empty token.
CompileAcceptsOnlyTwoDigitTokens ==
    ret # <<>> =>
      /\ (ret[1].err = "") <=>
            \A k \in 1..Len(Split(call.Signature)) :
               LET t == Split(call.Signature)[k]
               IN IsWildToken(t) \/ IsTwoHexToken(t) \/ t = <<>>
      /\ ret[1].err = "" => CompiledInTokenOrder(call.Signature, ret[1])

\* C9 amended: compilation succeeds exactly when every token is the wildcard
\* marker, empty, or a non-empty run of hexadecimal digits whose value fits
\* in one byte (one digit, two digits, or more with leading zeros); on
\* success the pattern and the wildcard mask have equal length with one
\* entry per non-empty token in token order.
CompileAcceptsByteHexTokens ==
    ret # <<>> =>
      /\ (ret[1].err = "") <=>
            \A k \in 1..Len(Split(call.Signature)) :
               LET t == Split(call.Signature)[k]
               IN IsWildToken(t) \/ IsByteHexToken(t) \/ t = <<>>
      /\ ret[1].err = "" => CompiledInTokenOrder(call.Signature, ret[1])

\* a text with a wildcard and a one-digit token compiles to two entries
CompileWitness ==
    /\ ret # <<>>
    /\ ret[1].err = ""
    /\ ret[1].wildcard = <<TRUE, FALSE>>
    /\ ret[1].signature = <<0, 15>>
    /\ \E k \in 1..Len(Split(call.Signature)) : Len(Split(call.Signature)[k]) = 1

(***************************************************************************)
(* SpecEst: estimatePsyqVesion on every small resolved match set           *)
(***************************************************************************)
MaxModules == 5      \* most resolved matches given to the estimator
EstVersions == 4     \* version tags the resolved matches are drawn from

InitEst ==
    /\ PipelineIdle
    /\ \E n \in 1..MaxModules :
         \E tag \in [1..n -> 1..EstVersions] :
            call = [fn |-> "estimatePsyqVesion",
                    matches |-> [name \in {ModuleName(i) : i \in 1..n} |->
                       LET i == CHOOSE k \in 1..n : ModuleName(k) = name
                       IN [start |-> i - 1, end |-> i, name |-> name,
                           version |-> versions[tag[i]], symbols |-> <<>>]]]
    /\ ret = <<>>

CallEstimate ==
    /\ call.fn = "estimatePsyqVesion"
    /\ ret = <<>>
    /\ \E out \in estimatePsyqVesion(call.matches) : ret' = <<out>>
    /\ UNCHANGED <<call, pipelineVars>>

NextEst == CallEstimate

SpecEst == InitEst /\ [][NextEst]_vars

\* C8: the estimate has at most 3 entries in ascending order of ratio, each
\* ratio is the number of resolved matches with that version tag over the
\* number of resolved matches, and no version tag appears twice.
EstimateContract ==
    ret # <<>> =>
      LET out == ret[1]
          all == call.matches
      IN /\ Len(out) <= 3
         /\ \A i \in 1..Len(out) :
              /\ out[i].match.den = Cardinality(DOMAIN all)
              /\ out[i].match.num =
                   Cardinality({n \in DOMAIN all : all[n].version = out[i].version})
              /\ out[i].match.num >= 1
              /\ out[i].match.num <= out[i].match.den
         /\ \A i, j \in 1..Len(out) :
              i < j => /\ out[i].match.num * out[j].match.den
                           <= out[j].match.num * out[i].match.den
                       /\ out[i].version # out[j].version

\* four versions are cut to three entries, and the version left out is the
\* one with the largest share
EstimateWitness ==
    /\ ret # <<>>
    /\ Cardinality({call.matches[n].version : n \in DOMAIN call.matches}) = 4
    /\ Len(ret[1]) = 3
    /\ \E n \in DOMAIN call.matches :
         /\ \A i \in 1..3 : ret[1][i].version # call.matches[n].version
         /\ \A i \in 1..3 : ret[1][i].match.num = 1
         /\ Cardinality({k \in DOMAIN call.matches :
                           call.matches[k].version = call.matches[n].version}) = 2

(***************************************************************************)
(* SpecRegion: the region output on every small resolved match set         *)
(***************************************************************************)
MaxStart == 5        \* largest start offset of a resolved match
MaxMatchLen == 3     \* longest pattern of a resolved match

RegionModules == {1, 2, 3}

InitRegion ==
    /\ PipelineIdle
    /\ \E present \in (SUBSET RegionModules) \ {{}} :
         \E start \in [present -> 0..MaxStart], len \in [present -> 1..MaxMatchLen] :
            call = [fn |-> "regions",
                    matches |-> [name \in {ModuleName(i) : i \in present} |->
                       LET i == CHOOSE k \in present : ModuleName(k) = name
                       IN [start |-> start[i], end |-> start[i] + len[i], name |-> name,
                           version |-> versions[1], symbols |-> <<>>]]]
    /\ ret = <<>>

CallRegions ==
    /\ call.fn = "regions"
    /\ ret = <<>>
    /\ \E sorted \in getMatchesSorted(call.matches) :
         ret' = <<[matches |-> sorted, lines |-> regionLines(sorted)]>>
    /\ UNCHANGED <<call, pipelineVars>>

NextRegion == CallRegions

SpecRegion == InitRegion /\ [][NextRegion]_vars

\* the position of the named segment of the i-th sorted match: one line per
\* earlier match and per earlier pair that is separated by a gap
SegmentPos(sorted, i) ==
    i + Cardinality({k \in 2..i : sorted[k].start > sorted[k - 1].end})

\* C7: the matches come sorted ascending by start; each match has its named
\* segment, in order, and a gap marker at the previous match's end stands
\* immediately before the segment of match i >= 1 exactly when that match
\* starts strictly after the previous match's end.
GapLaw ==
    ret # <<>> =>
      LET sorted == ret[1].matches
          lines == ret[1].lines
      IN /\ \A i \in 1..(Len(sorted) - 1) : sorted[i].start <= sorted[i + 1].start
         /\ Len(lines) = SegmentPos(sorted, Len(sorted))
         /\ \A i \in 1..Len(sorted) :
              /\ lines[SegmentPos(sorted, i)].kind = "segment"
              /\ lines[SegmentPos(sorted, i)].offset = FormatX(sorted[i].start)
              /\ lines[SegmentPos(sorted, i)].name
                   = ToLower(SubSeq(sorted[i].name, 1, 1))
         /\ \A i \in 2..Len(sorted) :
              LET p == SegmentPos(sorted, i) - 1
              IN IF sorted[i].start > sorted[i - 1].end
                 THEN /\ lines[p].kind = "gap"
                      /\ lines[p].offset = FormatX(sorted[i - 1].end)
                 ELSE lines[p].kind = "segment"
         /\ lines[1].kind = "segment"

\* the scenario A(1,2), B(2,3), C(5,6): A, B, gap at 3, C
GapLawWitness ==
    /\ ret # <<>>
    /\ Len(ret[1].matches) = 3
    /\ [i \in 1..3 |-> <<ret[1].matches[i].start, ret[1].matches[i].end>>]
         = <<<<1, 2>>, <<2, 3>>, <<5, 6>>>>
    /\ [i \in 1..Len(ret[1].lines) |-> ret[1].lines[i].kind]
         = <<"segment", "segment", "gap", "segment">>
    /\ ret[1].lines[3].offset = <<"3">>

\* C10: whenever a gap marker at offset g stands before the named segment
\* starting at s, no resolved match covers a byte of [g, s).
GapsAreUnattributed ==
    ret # <<>> =>
      LET sorted == ret[1].matches
          lines == ret[1].lines
      IN \A i \in 2..Len(sorted) :
           lines[SegmentPos(sorted, i) - 1].kind = "gap" =>
              \A n \in DOMAIN call.matches :
                 ~(call.matches[n].start < sorted[i].start
                   /\ call.matches[n].end > sorted[i - 1].end)

====
